---------------------------- MODULE Spec2Model ----------------------------
(***************************************************************************)
(* Model of the window endpoint of PIMS (src/pims/api/window.py):          *)
(* show_window_with_body and the body of _show_window, one step per        *)
(* validation or resolution call, together with the collaborators the      *)
(* handler calls (pyramid geometry, output sizing, reduction and array     *)
(* size checks, channel pruning, the response cache).                      *)
(***************************************************************************)
EXTENDS Integers, Sequences, FiniteSets, TLC

(***************************************************************************)
(* Bounds of the model.                                                    *)
(***************************************************************************)
\* side, in pixels, of the (square) image at level 0
ImageSide == 2
\* side, in pixels, of a tile of every tier
TileSize == 1
\* pyramid.max_zoom: the pyramid has the levels 0..MaxZoom
MaxZoom == 1
\* largest width and height get_window_output_dimensions answers
MaxSide == 3
\* config.output_size_limit
OutputSizeLimit == 2
\* largest number of channels a selection resolves to
MaxChannels == 2
\* largest number of focal planes and of timepoints a selection resolves to
MaxPlanes == 2
\* largest length of a channel-parameter array of the request
MaxLen == 3
\* largest number of annotations of the request
MaxAnnots == 1
\* concurrent requests and distinct fingerprints of the cache specification
NumRequests == 3
NumFingerprints == 2
\* largest side and largest limit the safeguard specification draws
MaxSafeguardSide == 5
MaxSafeguardLimit == 3

Max(a, b) == IF a >= b THEN a ELSE b

RECURSIVE Pow2(_)
Pow2(n) == IF n = 0 THEN 1 ELSE 2 * Pow2(n - 1)

\* a / b rounded to the nearest integer, ties to the even one (Python's round)
Round(a, b) ==
    LET q == a \div b
        r == a % b
    IN  IF 2 * r < b THEN q
        ELSE IF 2 * r > b THEN q + 1
        ELSE IF q % 2 = 0 THEN q ELSE q + 1

CeilDiv(a, b) == (a + b - 1) \div b

(***************************************************************************)
(* Values.  A dict is a function from keys to values; a key of a JSON      *)
(* payload is one string, written as the 1-tuple <<"top">>, so that the    *)
(* tuple key ('tx', 'ty') of line 134 is the 2-tuple <<"tx", "ty">>.       *)
(* None for reference_tier_index is the empty sequence.                    *)
(***************************************************************************)
EmptyDict == [k \in {} |-> 0]

Rect(top, left, width, height) ==
    (<<"top">> :> top) @@ (<<"left">> :> left)
        @@ (<<"width">> :> width) @@ (<<"height">> :> height)

\* a resolved Region, expressed at a tier
Region(top, left, width, height, tier_index, tier_index_type) ==
    [type |-> "Region", d |-> Rect(top, left, width, height),
     tier_index_type |-> tier_index_type, reference_tier_index |-> <<tier_index>>]

\* a raw region payload (WindowRegion, WindowTileIndex or WindowTileCoord dumped)
RegionDict(d, tier_index_type, reference_tier_index) ==
    [type |-> "dict", d |-> d,
     tier_index_type |-> tier_index_type, reference_tier_index |-> reference_tier_index]

isinstance_Region(region) == region.type = "Region"

\* `key in region` of Python, for a dict
HasKey(region, key) == key \in DOMAIN region.d

(***************************************************************************)
(* The pyramid of the image (a collaborator).                              *)
(***************************************************************************)
TierLevel(tier_index, tier_index_type) ==
    IF tier_index_type = "LEVEL" THEN tier_index ELSE MaxZoom - tier_index

TierSide(tier_index, tier_index_type) ==
    Max(1, ImageSide \div Pow2(TierLevel(tier_index, tier_index_type)))

GridSide(tier_index, tier_index_type) ==
    CeilDiv(TierSide(tier_index, tier_index_type), TileSize)

\* parse_region(..., silent_oob=False): the region, or out of bounds
parse_region_ok(top, left, width, height, tier_index, tier_index_type) ==
    /\ top >= 0 /\ left >= 0 /\ width >= 1 /\ height >= 1
    /\ left + width <= TierSide(tier_index, tier_index_type)
    /\ top + height <= TierSide(tier_index, tier_index_type)

parse_region(top, left, width, height, tier_index, tier_index_type) ==
    Region(top, left, width, height, tier_index, tier_index_type)

check_tileindex_validity(ti, tier_index, tier_index_type) ==
    LET g == GridSide(tier_index, tier_index_type) IN ti >= 0 /\ ti < g * g

check_tilecoord_validity(tx, ty, tier_index, tier_index_type) ==
    LET g == GridSide(tier_index, tier_index_type)
    IN  tx >= 0 /\ tx < g /\ ty >= 0 /\ ty < g

get_txty_tile(tx, ty, tier_index, tier_index_type) ==
    Region(ty * TileSize, tx * TileSize, TileSize, TileSize, tier_index, tier_index_type)

get_ti_tile(ti, tier_index, tier_index_type) ==
    LET g == GridSide(tier_index, tier_index_type)
    IN  get_txty_tile(ti % g, ti \div g, tier_index, tier_index_type)

(***************************************************************************)
(* Output sizing (a collaborator).                                         *)
(***************************************************************************)
SafeModes == {"SAFE_RESIZE", "UNSAFE"}

\* the halving a careless safeguard would do: one step down, not down to the limit
safeguard_output_dimensions_halving(safe_mode, max_size, width, height) ==
    IF safe_mode = "UNSAFE" THEN <<width, height>>
    ELSE IF width > max_size \/ height > max_size
         THEN <<Round(width, 2), Round(height, 2)>>
         ELSE <<width, height>>

safeguard_output_dimensions(safe_mode, max_size, width, height) ==
    IF safe_mode = "UNSAFE" THEN <<width, height>>
    ELSE IF width > max_size \/ height > max_size
         THEN IF width > height
              THEN <<max_size, Round(max_size * height, width)>>
              ELSE <<Round(max_size * width, height), max_size>>
         ELSE <<width, height>>


(***************************************************************************)
(* Dimension selections and channel parameters (collaborators).            *)
(***************************************************************************)
\* a parameter of the request that is None, one value, or a list
NoneParam == [kind |-> "None", items |-> <<>>]
ScalarParam(v) == [kind |-> "scalar", items |-> <<v>>]
ListParam(items) == [kind |-> "list", items |-> items]

ensure_list(p) == IF p.kind = "None" THEN <<>> ELSE p.items

\* check_reduction_validity(indexes, reduction, name): TRUE when it passes
check_reduction_validity(indexes, reduction) ==
    ~ (Len(indexes) > 1 /\ reduction = "None")

\* check_array_size_parameters(names, locals, allowed, nullable=False): the first
\* of the names whose array has a length that is not allowed, or "none"
check_array_size_parameters(array_parameters, locals, allowed) ==
    LET bad == {i \in 1..Len(array_parameters) :
                    Len(locals[array_parameters[i]]) \notin allowed}
    IN  IF bad = {} THEN "none"
        ELSE array_parameters[CHOOSE i \in bad : \A j \in bad : i <= j]

\* the value a parser gives channel i from an array of length 0, 1 or n
Broadcast(channels, arr) ==
    [i \in 1..Len(channels) |->
        [ch |-> channels[i],
         val |-> IF Len(arr) = 0 THEN 0
                 ELSE IF Len(arr) = 1 THEN arr[1]
                 ELSE arr[i]]]

parse_intensity_bounds(channels, min_intensities, max_intensities) ==
    <<Broadcast(channels, min_intensities), Broadcast(channels, max_intensities)>>

parse_colormap_ids(colormaps, channels) == Broadcast(channels, colormaps)

parse_gammas(channels, gammas) == Broadcast(channels, gammas)

RECURSIVE Pick(_, _, _)
Pick(s, keep, i) ==
    IF i > Len(s) THEN <<>>
    ELSE (IF i \in keep THEN <<s[i]>> ELSE <<>>) \o Pick(s, keep, i + 1)

\* remove_useless_channels: the positions in `keep` are the useful channels
remove_useless_channels(channels, min_intensities, max_intensities, colormaps, gammas, keep) ==
    <<Pick(channels, keep, 1), Pick(min_intensities, keep, 1),
      Pick(max_intensities, keep, 1), Pick(colormaps, keep, 1),
      Pick(gammas, keep, 1)>>

(***************************************************************************)
(* The requests the model draws.  Every request differs from BaseInput in  *)
(* one group of parameters, which ranges over its whole bounded domain.    *)
(*   region       the region argument: a raw payload or a resolved Region  *)
(*   req_size     what get_window_output_dimensions answers                *)
(*   channels, z_slices, timepoints                                        *)
(*                what get_channel_indexes, get_zslice_indexes and         *)
(*                get_timepoint_indexes answer                             *)
(*   *_reduction  "absent" (the argument is not given), "None" or a name   *)
(***************************************************************************)
Indexes(m) == [i \in 1..m |-> i - 1]
Values(k) == [i \in 1..k |-> i]

TierIndexTypes == {"LEVEL", "ZOOM"}

TopDicts == {EmptyDict} \cup {Rect(0, 0, w, 1) : w \in {1, ImageSide + 1}}
TiDicts == {EmptyDict} \cup {(<<"ti">> :> ti) : ti \in 0..(ImageSide * ImageSide)}
TxTyDicts ==
    {EmptyDict} \cup {(<<"tx">> :> tx) @@ (<<"ty">> :> ty) :
                        tx \in 0..ImageSide, ty \in 0..ImageSide}

RegionArgs ==
    {RegionDict(a @@ b @@ c, t, r) :
        a \in TopDicts, b \in TiDicts, c \in TxTyDicts,
        t \in TierIndexTypes, r \in {<<>>, <<0>>}}
    \cup {Region(0, 0, 1, 1, 0, "LEVEL")}

ArrayParams == {NoneParam, ScalarParam(1)} \cup {ListParam(Values(k)) : k \in 0..MaxLen}

CReductions == {"absent", "None", "ADD"}
ZTReductions == {"absent", "None", "MEAN"}
AnnotationArgs == [n : 0..MaxAnnots, parsed : BOOLEAN]
AnnotationStyles == {"None", "DRAWING", "MASK"}

BaseInput ==
    [exists |-> TRUE,
     region |-> RegionDict(Rect(0, 0, 1, 1), "LEVEL", <<>>),
     req_size |-> <<1, 1>>, safe_mode |-> "SAFE_RESIZE",
     channels |-> Indexes(1), z_slices |-> Indexes(1), timepoints |-> Indexes(1),
     c_reduction |-> "absent", z_reduction |-> "absent", t_reduction |-> "absent",
     min_intensities |-> NoneParam, max_intensities |-> NoneParam,
     colormaps |-> NoneParam, gammas |-> NoneParam, filters |-> NoneParam,
     annotations |-> [n |-> 0, parsed |-> FALSE], annotation_style |-> "None"]

RegionInputs == {[BaseInput EXCEPT !.region = r] : r \in RegionArgs}

SizeInputs ==
    {[BaseInput EXCEPT !.req_size = <<w, h>>, !.safe_mode = s,
                       !.annotations = a, !.annotation_style = st] :
        w \in 1..MaxSide, h \in 1..MaxSide, s \in SafeModes,
        a \in AnnotationArgs, st \in AnnotationStyles}

DimensionInputs ==
    {[BaseInput EXCEPT !.channels = Indexes(n), !.z_slices = Indexes(z),
                       !.timepoints = Indexes(t), !.c_reduction = cr,
                       !.z_reduction = zr, !.t_reduction = tr] :
        n \in 1..MaxChannels, z \in 1..MaxPlanes, t \in 1..MaxPlanes,
        cr \in CReductions, zr \in ZTReductions, tr \in ZTReductions}

ArrayInputs ==
    {[BaseInput EXCEPT !.channels = Indexes(n), !.min_intensities = a,
                       !.max_intensities = b, !.colormaps = c, !.gammas = g] :
        n \in 1..MaxChannels, a \in ArrayParams, b \in ArrayParams,
        c \in ArrayParams, g \in ArrayParams}

FilterInputs ==
    {[BaseInput EXCEPT !.channels = Indexes(n), !.filters = f] :
        n \in 1..MaxChannels, f \in ArrayParams}

Inputs ==
    {[BaseInput EXCEPT !.exists = FALSE]} \cup RegionInputs \cup SizeInputs
        \cup DimensionInputs \cup ArrayInputs \cup FilterInputs

(***************************************************************************)
(* State.  The first group is one execution of the body of _show_window:   *)
(* its position, the error that ended it, the steps it has completed       *)
(* (checked), its arguments and its locals under their names in the        *)
(* source.                                                                 *)
(***************************************************************************)
VARIABLES
    pc, err, err_param, checked, input, in_image, region,
    req_size, out_size, out_width, out_height,
    channels, z_slices, timepoints, c_reduction, z_reduction, t_reduction,
    min_intensities, max_intensities, colormaps, gammas, filters,
    annotations, annotation_style, affine, window, response,
    \* the response cache and the requests that go through it
    rstate, rfp, cache, inflight, computations, evictions, failures,
    \* the safeguard applied over and over to one size
    sg

bodyVars ==
    <<pc, err, err_param, checked, input, in_image, region,
      req_size, out_size, out_width, out_height,
      channels, z_slices, timepoints, c_reduction, z_reduction, t_reduction,
      min_intensities, max_intensities, colormaps, gammas, filters,
      annotations, annotation_style, affine, window, response>>
cacheVars == <<rstate, rfp, cache, inflight, computations, evictions, failures>>
vars == <<bodyVars, cacheVars, sg>>

sizeVars == <<req_size, out_size, out_width, out_height>>
dimVars == <<channels, z_slices, timepoints>>
redVars == <<c_reduction, z_reduction, t_reduction>>
arrVars == <<min_intensities, max_intensities, colormaps, gammas>>
annVars == <<annotations, annotation_style, affine>>
outVars == <<window, response>>
otherVars == <<cacheVars, sg>>

NoWindow == [kind |-> "None"]
NoResponse == [kind |-> "None"]

\* the default of c_reduction in the signature of _show_window, with None in its place
c_reduction_default_None == "None"

c_reduction_default == "ADD"

z_reduction_default == "None"

t_reduction_default == "None"

Given(arg, default) == IF arg = "absent" THEN default ELSE arg

\* the arguments bound to the parameters of _show_window
BodyBound(i) ==
    /\ input = i
    /\ err = "none" /\ err_param = "none" /\ checked = {}
    /\ in_image = "unset"
    /\ region = i.region
    /\ req_size = <<0, 0>> /\ out_size = <<0, 0>> /\ out_width = 0 /\ out_height = 0
    /\ channels = i.channels /\ z_slices = i.z_slices /\ timepoints = i.timepoints
    /\ c_reduction = Given(i.c_reduction, c_reduction_default)
    /\ z_reduction = Given(i.z_reduction, z_reduction_default)
    /\ t_reduction = Given(i.t_reduction, t_reduction_default)
    /\ min_intensities = i.min_intensities /\ max_intensities = i.max_intensities
    /\ colormaps = i.colormaps /\ gammas = i.gammas /\ filters = i.filters
    /\ annotations = i.annotations /\ annotation_style = i.annotation_style
    /\ affine = "None" /\ window = NoWindow /\ response = NoResponse

CacheIdle ==
    /\ rstate = [r \in 1..NumRequests |-> "idle"]
    /\ rfp = [r \in 1..NumRequests |-> 0]
    /\ cache = [f \in 1..NumFingerprints |-> "empty"]
    /\ inflight = [f \in 1..NumFingerprints |-> 0]
    /\ computations = [f \in 1..NumFingerprints |-> 0]
    /\ evictions = [f \in 1..NumFingerprints |-> 0]
    /\ failures = [f \in 1..NumFingerprints |-> 0]

SafeguardIdle ==
    sg = [safe_mode |-> "UNSAFE", max_size |-> OutputSizeLimit,
          requested |-> <<1, 1>>, size |-> <<1, 1>>, previous |-> <<1, 1>>,
          applied |-> 0]

Init ==
    /\ pc = "get_image"
    /\ \E i \in Inputs : BodyBound(i)
    /\ CacheIdle
    /\ SafeguardIdle

\* the step raises: the request ends with this error
Fail(kind, param) ==
    pc' = "error" /\ err' = kind /\ err_param' = param /\ UNCHANGED checked

\* the step completes and the body goes on
Goto(next) ==
    pc' = next /\ checked' = checked \cup {pc} /\ UNCHANGED <<err, err_param>>

(***************************************************************************)
(* The body of _show_window.                                               *)
(***************************************************************************)
GetImage ==
    /\ pc = "get_image"
    /\ in_image' = IF input.exists THEN "image" ELSE "None"
    /\ IF in_image' = "None"
       THEN Fail("NoAppropriateRepresentation", "none")
       ELSE Goto("region")
    /\ UNCHANGED <<input, region, sizeVars, dimVars, redVars, arrVars, filters,
                   annVars, outVars, otherVars>>

reference_tier_index(r) ==
    IF r.reference_tier_index = <<>>
    THEN IF r.tier_index_type = "LEVEL" THEN 0 ELSE MaxZoom
    ELSE r.reference_tier_index[1]

Resolved(r) == [err |-> "none", region |-> r]
Refused(kind, r) == [err |-> kind, region |-> r]

\* lines 107-143: what the region is after them, or the error that ends the request
resolve_region(r) ==
    IF isinstance_Region(r) THEN Resolved(r)
    ELSE LET idx == reference_tier_index(r)
             t == r.tier_index_type
             d == r.d
         IN  IF HasKey(r, <<"top">>)
             THEN IF parse_region_ok(d[<<"top">>], d[<<"left">>], d[<<"width">>],
                                     d[<<"height">>], idx, t)
                  THEN Resolved(parse_region(d[<<"top">>], d[<<"left">>], d[<<"width">>],
                                             d[<<"height">>], idx, t))
                  ELSE Refused("OutOfBoundsRegion", r)
             ELSE IF HasKey(r, <<"ti">>)
             THEN IF check_tileindex_validity(d[<<"ti">>], idx, t)
                  THEN Resolved(get_ti_tile(d[<<"ti">>], idx, t))
                  ELSE Refused("InvalidTileAddress", r)
             ELSE IF HasKey(r, <<"tx", "ty">>)
             THEN IF check_tilecoord_validity(d[<<"tx">>], d[<<"ty">>], idx, t)
                  THEN Resolved(get_txty_tile(d[<<"tx">>], d[<<"ty">>], idx, t))
                  ELSE Refused("InvalidTileAddress", r)
             ELSE Resolved(r)

ResolveRegion ==
    /\ pc = "region"
    /\ LET res == resolve_region(region)
       IN  /\ region' = res.region
           /\ IF res.err = "none" THEN Goto("format") ELSE Fail(res.err, "region")
    /\ UNCHANGED <<input, in_image, sizeVars, dimVars, redVars, arrVars, filters,
                   annVars, outVars, otherVars>>

\* a validation whose failure is noted and does not end the request
Validation_not_raising(at, next, kind) ==
    /\ pc = at
    /\ \E ok \in BOOLEAN :
          IF ok THEN Goto(next)
          ELSE pc' = next /\ err' = kind /\ err_param' = "none" /\ UNCHANGED checked
    /\ UNCHANGED <<input, in_image, region, sizeVars, dimVars, redVars, arrVars,
                   filters, annVars, outVars, otherVars>>

\* a validation whose verdict the collaborator gives: it passes or ends the request
Validation(at, next, kind) ==
    /\ pc = at
    /\ \E ok \in BOOLEAN : IF ok THEN Goto(next) ELSE Fail(kind, "none")
    /\ UNCHANGED <<input, in_image, region, sizeVars, dimVars, redVars, arrVars,
                   filters, annVars, outVars, otherVars>>

GetOutputFormat == Validation("format", "zoom", "UnsupportedOutputFormat")

CheckZoomValidity == Validation("zoom", "level", "InvalidZoomOrLevel")

CheckLevelValidity == Validation("level", "size", "InvalidZoomOrLevel")

\* out_width, out_height taken from the requested size instead of the safeguarded one
response_size_unsafeguarded(req, out) == req

\* line 150: the size the response is built with
response_size(req, out) == out

\* lines 148-150; the sizer reads the attributes of a Region, which a dict has not
OutputSize ==
    /\ pc = "size"
    /\ IF isinstance_Region(region)
       THEN /\ req_size' = input.req_size
            /\ out_size' = safeguard_output_dimensions(
                               input.safe_mode, OutputSizeLimit,
                               req_size'[1], req_size'[2])
            /\ out_width' = response_size(req_size', out_size')[1]
            /\ out_height' = response_size(req_size', out_size')[2]
            /\ Goto("dimensions")
       ELSE /\ Fail("InternalError", "region")
            /\ UNCHANGED sizeVars
    /\ UNCHANGED <<input, in_image, region, dimVars, redVars, arrVars, filters,
                   annVars, outVars, otherVars>>

\* lines 152-161: the first axis whose reduction check fails, or "none"
reduction_failure(c, cr, z, zr, t, tr) ==
    IF ~ check_reduction_validity(c, cr) THEN "channels"
    ELSE IF ~ check_reduction_validity(z, zr) THEN "z_slices"
    ELSE IF ~ check_reduction_validity(t, tr) THEN "timepoints"
    ELSE "none"

ResolveDimensions ==
    /\ pc = "dimensions"
    /\ LET bad == reduction_failure(channels, c_reduction, z_slices, z_reduction,
                                    timepoints, t_reduction)
       IN  IF bad = "none" THEN Goto("arrays") ELSE Fail("ReductionRequired", bad)
    /\ UNCHANGED <<input, in_image, region, sizeVars, dimVars, redVars, arrVars,
                   filters, annVars, outVars, otherVars>>

\* the lengths allowed for the per-channel arrays, had the channel count been left out
channel_array_allowed_01(chs) == {0, 1}

\* line 171: allowed=[0, 1, len(channels)]
channel_array_allowed(chs) == {0, 1, Len(chs)}

\* line 169
channel_array_parameters == <<"min_intensities", "max_intensities", "colormaps", "gammas">>

\* line 186: allowed=[0, 1]
filter_array_allowed == {0, 1}

\* line 184
filter_array_parameters == <<"filters">>

\* lines 163-172
CheckArraySizes ==
    /\ pc = "arrays"
    /\ min_intensities' = ensure_list(min_intensities)
    /\ max_intensities' = ensure_list(max_intensities)
    /\ colormaps' = ensure_list(colormaps)
    /\ filters' = ensure_list(filters)
    /\ gammas' = ensure_list(gammas)
    /\ LET locals == [min_intensities |-> min_intensities',
                      max_intensities |-> max_intensities',
                      colormaps |-> colormaps', gammas |-> gammas']
           bad == check_array_size_parameters(channel_array_parameters, locals,
                                              channel_array_allowed(channels))
       IN  IF bad = "none" THEN Goto("parse") ELSE Fail("ArraySizeMismatch", bad)
    /\ UNCHANGED <<input, in_image, region, sizeVars, dimVars, redVars,
                   annVars, outVars, otherVars>>

\* lines 173-178; a parser refuses a value it does not know
ParseChannelParameters ==
    /\ pc = "parse"
    /\ \E ok \in BOOLEAN :
          IF ok
          THEN LET intensities == parse_intensity_bounds(channels, min_intensities,
                                                         max_intensities)
               IN  /\ min_intensities' = intensities[1]
                   /\ max_intensities' = intensities[2]
                   /\ colormaps' = parse_colormap_ids(colormaps, channels)
                   /\ gammas' = parse_gammas(channels, gammas)
                   /\ Goto("prune")
          ELSE Fail("BadRequest", "none") /\ UNCHANGED arrVars
    /\ UNCHANGED <<input, in_image, region, sizeVars, dimVars, redVars, filters,
                   annVars, outVars, otherVars>>

\* the pruned arrays bound to the five names, gammas left as it was
pruned_locals_gammas_unbound(chs, mins, maxs, cmaps, gms, keep) ==
    LET pruned == remove_useless_channels(chs, mins, maxs, cmaps, gms, keep)
    IN  <<pruned[1], pruned[2], pruned[3], pruned[4], gms>>

\* lines 180-182: the values bound to
\* channels, min_intensities, max_intensities, colormaps, gammas
pruned_locals(chs, mins, maxs, cmaps, gms, keep) ==
    remove_useless_channels(chs, mins, maxs, cmaps, gms, keep)

RemoveUselessChannels ==
    /\ pc = "prune"
    /\ \E keep \in SUBSET (1..Len(channels)) :
          LET pruned == pruned_locals(channels, min_intensities, max_intensities,
                                      colormaps, gammas, keep)
          IN  /\ channels' = pruned[1]
              /\ min_intensities' = pruned[2]
              /\ max_intensities' = pruned[3]
              /\ colormaps' = pruned[4]
              /\ gammas' = pruned[5]
    /\ Goto("filters")
    /\ UNCHANGED <<input, in_image, region, sizeVars, z_slices, timepoints, redVars,
                   filters, annVars, outVars, otherVars>>

\* lines 184-188
ParseFilters ==
    /\ pc = "filters"
    /\ LET bad == check_array_size_parameters(filter_array_parameters,
                                              [filters |-> filters], filter_array_allowed)
       IN  IF bad # "none" THEN Fail("ArraySizeMismatch", bad)
           ELSE \E ok \in BOOLEAN :
                   IF ok THEN Goto("bitdepth") ELSE Fail("BadRequest", "none")
    /\ UNCHANGED <<input, in_image, region, sizeVars, dimVars, redVars, arrVars,
                   filters, annVars, outVars, otherVars>>

\* line 190
ParseBitdepth == Validation("bitdepth", "annotations", "BadRequest")

\* the truth value of `annotations` and of `annotation_style`
truthy_annotations(a) == a.n > 0
truthy_style(st) == st # "None"

\* lines 192-206
ParseAnnotations ==
    /\ pc = "annotations"
    /\ IF truthy_annotations(annotations) /\ truthy_style(annotation_style)
            /\ ~ annotations.parsed
       THEN \E ok \in BOOLEAN :
               IF ok
               THEN annotations' = [annotations EXCEPT !.parsed = TRUE] /\ Goto("affine")
               ELSE Fail("BadRequest", "annotations") /\ UNCHANGED annotations
       ELSE Goto("affine") /\ UNCHANGED annotations
    /\ UNCHANGED <<input, in_image, region, sizeVars, dimVars, redVars, arrVars,
                   filters, annotation_style, affine, outVars, otherVars>>

\* lines 208-210; a dict or a list of dicts has no attribute `region`
CropAffine ==
    /\ pc = "affine"
    /\ IF ~ truthy_annotations(annotations)
       THEN Goto("window") /\ UNCHANGED affine
       ELSE IF annotations.parsed
       THEN affine' = "matrix" /\ Goto("window")
       ELSE Fail("InternalError", "annotations") /\ UNCHANGED affine
    /\ UNCHANGED <<input, in_image, region, sizeVars, dimVars, redVars, arrVars,
                   filters, annotations, annotation_style, outVars, otherVars>>

\* the response chosen on the style mode alone
window_class_by_mode(a, st) == IF st = "MASK" THEN "MaskResponse" ELSE "WindowResponse"

\* lines 212-213 and 219: the response class
window_class(a, st) ==
    IF truthy_annotations(a) /\ truthy_style(st) /\ st = "MASK"
    THEN "MaskResponse"
    ELSE "WindowResponse"

\* lines 212-228
BuildWindow ==
    /\ pc = "window"
    /\ window' =
          IF window_class(annotations, annotation_style) = "MaskResponse"
          THEN [kind |-> "MaskResponse", annotations |-> annotations, affine |-> affine,
                out_width |-> out_width, out_height |-> out_height]
          ELSE [kind |-> "WindowResponse", channels |-> channels, z_slices |-> z_slices,
                timepoints |-> timepoints, region |-> region,
                out_width |-> out_width, out_height |-> out_height,
                c_reduction |-> c_reduction, z_reduction |-> z_reduction,
                t_reduction |-> t_reduction, gammas |-> gammas, filters |-> filters,
                colormaps |-> colormaps, min_intensities |-> min_intensities,
                max_intensities |-> max_intensities, annotations |-> annotations,
                affine |-> affine, annotation_style |-> annotation_style]
    /\ Goto("respond")
    /\ UNCHANGED <<input, in_image, region, sizeVars, dimVars, redVars, arrVars,
                   filters, annVars, response, otherVars>>

\* line 232: add_image_size_limit_header(dict(), *req_size, *out_size)
add_image_size_limit_header(req, out) == [requested |-> req, safeguarded |-> out]

\* lines 230-233
HttpResponse ==
    /\ pc = "respond"
    /\ response' = [kind |-> "image", window |-> window.kind,
                    width |-> window.out_width, height |-> window.out_height,
                    extra_headers |-> add_image_size_limit_header(req_size, out_size)]
    /\ Goto("done")
    /\ UNCHANGED <<input, in_image, region, sizeVars, dimVars, redVars, arrVars,
                   filters, annVars, window, otherVars>>

Next ==
    \/ GetImage
    \/ ResolveRegion
    \/ GetOutputFormat
    \/ CheckZoomValidity
    \/ CheckLevelValidity
    \/ OutputSize
    \/ ResolveDimensions
    \/ CheckArraySizes
    \/ ParseChannelParameters
    \/ RemoveUselessChannels
    \/ ParseFilters
    \/ ParseBitdepth
    \/ ParseAnnotations
    \/ CropAffine
    \/ BuildWindow
    \/ HttpResponse

Spec == Init /\ [][Next]_vars

(***************************************************************************)
(* The response cache around _show_window (cache_image_response, line 88)  *)
(* and the requests that reach it through show_window_with_body.  The body *)
(* is seen from outside: it starts, suspends at line 104, and returns a    *)
(* response or raises.                                                     *)
(***************************************************************************)
Requests == 1..NumRequests
Fingerprints == 1..NumFingerprints

InitCache ==
    /\ pc = "idle"
    /\ BodyBound(BaseInput)
    /\ CacheIdle
    /\ SafeguardIdle

\* the body of _show_window starts for request r
StartBody(r, f) ==
    /\ rstate' = [rstate EXCEPT ![r] = "computing"]
    /\ rfp' = [rfp EXCEPT ![r] = f]
    /\ computations' = [computations EXCEPT ![f] = @ + 1]

\* the wrapper cache_image_response puts around the body: a stored response is
\* served, a computation in flight is joined, and else the body starts
cache_image_response(r, f) ==
    IF cache[f] = "stored"
    THEN /\ rstate' = [rstate EXCEPT ![r] = "served"]
         /\ rfp' = [rfp EXCEPT ![r] = f]
         /\ UNCHANGED <<inflight, computations>>
    ELSE IF inflight[f] # 0
    THEN /\ rstate' = [rstate EXCEPT ![r] = "joined"]
         /\ rfp' = [rfp EXCEPT ![r] = f]
         /\ UNCHANGED <<inflight, computations>>
    ELSE /\ StartBody(r, f)
         /\ inflight' = [inflight EXCEPT ![f] = r]

\* the handler calling the body itself, as if _show_window had no decorator
show_window_with_body_undecorated(r) ==
    /\ rstate[r] = "idle"
    /\ \E f \in Fingerprints : StartBody(r, f) /\ UNCHANGED inflight
    /\ UNCHANGED <<cache, evictions, failures, bodyVars, sg>>

\* lines 60-88: the handler awaits the decorated _show_window
show_window_with_body(r) ==
    /\ rstate[r] = "idle"
    /\ \E f \in Fingerprints : cache_image_response(r, f)
    /\ UNCHANGED <<cache, evictions, failures, bodyVars, sg>>

\* the requests the return of r's body answers: r and those that joined it
Answered(r) == {r} \cup {q \in Requests : rstate[q] = "joined" /\ rfp[q] = rfp[r]}

\* lines 104-233 return a response: it is stored and given to all who wait for it
BodyReturns(r) ==
    /\ rstate[r] = "computing"
    /\ rstate' = [q \in Requests |-> IF q \in Answered(r) THEN "served" ELSE rstate[q]]
    /\ cache' = [cache EXCEPT ![rfp[r]] = "stored"]
    /\ inflight' = [inflight EXCEPT ![rfp[r]] = IF @ = r THEN 0 ELSE @]
    /\ UNCHANGED <<rfp, computations, evictions, failures, bodyVars, sg>>

\* lines 104-233 raise: nothing is stored
BodyRaises(r) ==
    /\ rstate[r] = "computing"
    /\ rstate' = [q \in Requests |-> IF q \in Answered(r) THEN "failed" ELSE rstate[q]]
    /\ failures' = [failures EXCEPT ![rfp[r]] = @ + 1]
    /\ inflight' = [inflight EXCEPT ![rfp[r]] = IF @ = r THEN 0 ELSE @]
    /\ UNCHANGED <<rfp, cache, computations, evictions, bodyVars, sg>>

\* the eviction policy of the store drops a stored response
Evict(f) ==
    /\ cache[f] = "stored"
    /\ cache' = [cache EXCEPT ![f] = "empty"]
    /\ evictions' = [evictions EXCEPT ![f] = @ + 1]
    /\ UNCHANGED <<rstate, rfp, inflight, computations, failures, bodyVars, sg>>

NextCache ==
    \/ \E r \in Requests : show_window_with_body(r)
    \/ \E r \in Requests : BodyReturns(r)
    \/ \E r \in Requests : BodyRaises(r)
    \/ \E f \in Fingerprints : Evict(f)

SpecCache == InitCache /\ [][NextCache]_vars

(***************************************************************************)
(* The safeguard as a function: applied again and again to one size.       *)
(***************************************************************************)
\* how many times the safeguard is applied
MaxApplications == 2

InitSafeguard ==
    /\ pc = "idle"
    /\ BodyBound(BaseInput)
    /\ CacheIdle
    /\ \E s \in SafeModes, m \in 1..MaxSafeguardLimit,
          w \in 1..MaxSafeguardSide, h \in 1..MaxSafeguardSide :
          sg = [safe_mode |-> s, max_size |-> m, requested |-> <<w, h>>,
                size |-> <<w, h>>, previous |-> <<w, h>>, applied |-> 0]

ApplySafeguard ==
    /\ sg.applied < MaxApplications
    /\ sg' = [sg EXCEPT
                !.previous = sg.size,
                !.size = safeguard_output_dimensions(sg.safe_mode, sg.max_size,
                                                     sg.size[1], sg.size[2]),
                !.applied = @ + 1]
    /\ UNCHANGED <<bodyVars, cacheVars>>

NextSafeguard == ApplySafeguard

SpecSafeguard == InitSafeguard /\ [][NextSafeguard]_vars

(***************************************************************************)
(* Properties.                                                             *)
(***************************************************************************)
InFlight(f) == {r \in Requests : rstate[r] = "computing" /\ rfp[r] = f}

\* C1: for every fingerprint at most one computation of the body is in flight
\* at any time, and the computations a fingerprint has had are one, plus one
\* for each stored response the store evicted and for each computation that
\* raised: a request that arrives while a computation with its fingerprint
\* runs joins it and starts none.
C1_OneComputationPerFingerprint ==
    \A f \in Fingerprints :
        /\ Cardinality(InFlight(f)) <= 1
        /\ computations[f] <= 1 + evictions[f] + failures[f]
        /\ (\E r \in Requests : rstate[r] # "idle" /\ rfp[r] = f) => computations[f] >= 1

\* a request has joined the computation another request with its fingerprint runs
C1_Witness ==
    \E r, q \in Requests :
        /\ r # q /\ rfp[r] = rfp[q]
        /\ rstate[r] = "computing" /\ rstate[q] = "joined"
        /\ computations[rfp[r]] = 1

Descriptors(r) ==
    {m \in {"top", "ti", "txty"} :
        \/ m = "top" /\ HasKey(r, <<"top">>)
        \/ m = "ti" /\ HasKey(r, <<"ti">>)
        \/ m = "txty" /\ HasKey(r, <<"tx">>) /\ HasKey(r, <<"ty">>)}

\* the region step has been taken
RegionStepTaken == "get_image" \in checked /\ pc # "region"

\* C2: a region payload that is no resolved Region and carries none, or more
\* than one, of the three descriptors ends the request at the region step with
\* an error: the step does not complete, and nothing is passed on to sizing.
C2_ExactlyOneDescriptor ==
    (/\ ~ isinstance_Region(input.region)
     /\ Cardinality(Descriptors(input.region)) # 1
     /\ RegionStepTaken)
        => (pc = "error" /\ "region" \notin checked)

\* C3: for a payload with a tile coordinate (tx, ty) and neither top nor ti,
\* the region step ends the request with InvalidTileAddress when tx or ty is
\* outside the grid of the reference tier, and otherwise the region of all
\* later steps is the rectangle the tier gives for tile (tx, ty).
C3_TileCoordinateResolved ==
    LET r == input.region
    IN  (/\ ~ isinstance_Region(r)
         /\ Descriptors(r) = {"txty"}
         /\ RegionStepTaken)
            => LET idx == reference_tier_index(r)
                   t == r.tier_index_type
                   tx == r.d[<<"tx">>]
                   ty == r.d[<<"ty">>]
               IN  IF check_tilecoord_validity(tx, ty, idx, t)
                   THEN region = get_txty_tile(tx, ty, idx, t)
                   ELSE pc = "error" /\ err = "InvalidTileAddress"

ValidationSteps ==
    {"get_image", "region", "format", "zoom", "level", "dimensions", "arrays",
     "parse", "filters", "bitdepth", "annotations"}

\* C4: a response object (WindowResponse or MaskResponse) and the HTTP response
\* exist only once every validation step has completed without an error; a
\* failed step ends the request, and a request that ended in an error has
\* built no response object and returned no image.
C4_ValidationBeforeResponse ==
    /\ (window.kind # "None" \/ response.kind # "None")
            => (ValidationSteps \subseteq checked /\ err = "none")
    /\ err # "none" => pc = "error"
    /\ pc = "error" => (window.kind = "None" /\ response.kind = "None")

\* the last validation before the response fails, and no response is built
C4_Witness ==
    /\ pc = "error" /\ err = "BadRequest" /\ err_param = "annotations"
    /\ "bitdepth" \in checked
    /\ window.kind = "None" /\ response.kind = "None"

PerChannelArrays == {"min_intensities", "max_intensities", "colormaps", "gammas"}

\* the length of a channel-parameter array of the request
ArgLen(name) == Len(ensure_list(input[name]))

\* the local of that name
Local(name) ==
    CASE name = "min_intensities" -> min_intensities
      [] name = "max_intensities" -> max_intensities
      [] name = "colormaps" -> colormaps
      [] name = "gammas" -> gammas
      [] name = "filters" -> filters

ResolvedChannelCount == Len(input.channels)

SizeMismatch(name) == pc = "error" /\ err = "ArraySizeMismatch" /\ err_param = name

\* C5 as the spec states it, filters among the arrays (for filters only the
\* size check, not the broadcast length): with n the number of resolved
\* channels, a length outside {0, 1, n} fails the request with
\* ArraySizeMismatch, a length in {0, 1, n} passes the size check, and the
\* broadcast array has length n.
C5_AllArraysAllowCount ==
    LET allowed == {0, 1, ResolvedChannelCount}
    IN  /\ \A name \in PerChannelArrays :
              /\ (ArgLen(name) \notin allowed /\ "dimensions" \in checked /\ pc # "arrays")
                    => (pc = "error" /\ err = "ArraySizeMismatch")
              /\ ArgLen(name) \in allowed => ~ SizeMismatch(name)
              /\ pc = "prune" => Len(Local(name)) = ResolvedChannelCount
        /\ (ArgLen("filters") \notin allowed /\ "prune" \in checked /\ pc # "filters")
              => SizeMismatch("filters")
        /\ ArgLen("filters") \in allowed => ~ SizeMismatch("filters")

\* C5, amended: for min_intensities, max_intensities, colormaps and gammas a
\* length outside {0, 1, n} fails the request with ArraySizeMismatch, a length
\* in {0, 1, n} passes the size check and the broadcast array has length n;
\* for filters the allowed lengths are 0 and 1 only: any other length, n
\* included when n > 1, fails with ArraySizeMismatch.
C5_ArraySizes ==
    LET allowed == {0, 1, ResolvedChannelCount}
    IN  /\ \A name \in PerChannelArrays :
              /\ (ArgLen(name) \notin allowed /\ "dimensions" \in checked /\ pc # "arrays")
                    => (/\ pc = "error" /\ err = "ArraySizeMismatch"
                        /\ err_param \in PerChannelArrays
                        /\ ArgLen(err_param) \notin allowed)
              /\ ArgLen(name) \in allowed => ~ SizeMismatch(name)
              /\ pc = "prune" => Len(Local(name)) = ResolvedChannelCount
        /\ (ArgLen("filters") \notin {0, 1} /\ "prune" \in checked /\ pc # "filters")
              => SizeMismatch("filters")
        /\ ArgLen("filters") \in {0, 1} => ~ SizeMismatch("filters")

\* two channels; one array is broadcast from one value, one is given per channel
C5_Witness ==
    /\ pc = "prune" /\ ResolvedChannelCount = 2
    /\ ArgLen("min_intensities") = 1 /\ ArgLen("max_intensities") = 2
    /\ ArgLen("gammas") = 0
    /\ Len(min_intensities) = 2 /\ Len(gammas) = 2

Axes == {"channels", "z_slices", "timepoints"}

ReductionArg(axis) ==
    CASE axis = "channels" -> input.c_reduction
      [] axis = "z_slices" -> input.z_reduction
      [] axis = "timepoints" -> input.t_reduction

ReductionRequired(axis) == pc = "error" /\ err = "ReductionRequired" /\ err_param = axis

DimensionStepTaken == "size" \in checked /\ pc # "dimensions"

\* C6 as the spec states it: on each of the three axes, more than one index
\* and no reduction function given fails the request with ReductionRequired,
\* and at most one index passes the check.
C6_ReductionRequiredOnEveryAxis ==
    \A axis \in Axes :
        /\ (/\ Len(input[axis]) > 1
            /\ ReductionArg(axis) \in {"absent", "None"}
            /\ DimensionStepTaken)
                => (pc = "error" /\ err = "ReductionRequired")
        /\ Len(input[axis]) <= 1 => ~ ReductionRequired(axis)

\* C6, amended: on z_slices and timepoints as stated; on channels a request
\* that gives no c_reduction gets the default ADD and passes with any number
\* of channels, and only a c_reduction given as null with more than one
\* channel fails with ReductionRequired.
C6_ReductionRequired ==
    /\ \A axis \in {"z_slices", "timepoints"} :
          /\ (/\ Len(input[axis]) > 1
              /\ ReductionArg(axis) \in {"absent", "None"}
              /\ DimensionStepTaken)
                  => (pc = "error" /\ err = "ReductionRequired")
          /\ ReductionRequired(axis)
                  => (Len(input[axis]) > 1 /\ ReductionArg(axis) \in {"absent", "None"})
    /\ (Len(input.channels) > 1 /\ input.c_reduction = "None" /\ DimensionStepTaken)
          => ReductionRequired("channels")
    /\ ReductionRequired("channels")
          => (Len(input.channels) > 1 /\ input.c_reduction = "None")

\* two channels and no c_reduction given: the reduction checks have passed
C6_Witness ==
    /\ "dimensions" \in checked
    /\ Len(input.channels) = 2 /\ input.c_reduction = "absent"
    /\ c_reduction = "ADD"

Aligned(chs, mins, maxs, cmaps, gms) ==
    /\ Len(mins) = Len(chs) /\ Len(maxs) = Len(chs)
    /\ Len(cmaps) = Len(chs) /\ Len(gms) = Len(chs)
    /\ \A i \in 1..Len(chs) :
          /\ mins[i].ch = chs[i] /\ maxs[i].ch = chs[i]
          /\ cmaps[i].ch = chs[i] /\ gms[i].ch = chs[i]

\* C7: from the pruning step on, and in the WindowResponse that is built,
\* channels, min_intensities, max_intensities, colormaps and gammas have one
\* length and entry i of each belongs to channel channels[i].
C7_ArraysAligned ==
    /\ "prune" \in checked
          => Aligned(channels, min_intensities, max_intensities, colormaps, gammas)
    /\ window.kind = "WindowResponse"
          => Aligned(window.channels, window.min_intensities, window.max_intensities,
                     window.colormaps, window.gammas)

\* of two channels the first was dropped, and the response is built on the second
C7_Witness ==
    /\ window.kind = "WindowResponse"
    /\ Len(input.channels) = 2
    /\ window.channels = <<1>>
    /\ ArgLen("gammas") = 2 /\ window.gammas[1].val = 2

Exceeds(size, limit) == size[1] > limit \/ size[2] > limit

Abs(x) == IF x < 0 THEN -x ELSE x

\* `out` is `req` scaled to the limit on its longer side, the other side rounded
ScaledToLimit(req, out, limit) ==
    IF req[1] > req[2]
    THEN out[1] = limit /\ 2 * Abs(out[2] * req[1] - limit * req[2]) <= req[1]
    ELSE out[2] = limit /\ 2 * Abs(out[1] * req[2] - limit * req[1]) <= req[2]

\* C8: the response object is built with the safeguarded size: the requested
\* size itself in unsafe mode or when it is within the limit, and else the
\* requested size scaled down in proportion to fit the limit; the headers of
\* the HTTP response carry the requested and the safeguarded size.
C8_SafeguardedSizeUsed ==
    /\ window.kind # "None" =>
          LET built == <<window.out_width, window.out_height>>
          IN  /\ req_size = input.req_size
              /\ built = out_size
              /\ input.safe_mode = "UNSAFE" => built = req_size
              /\ (input.safe_mode # "UNSAFE" /\ ~ Exceeds(req_size, OutputSizeLimit))
                    => built = req_size
              /\ (input.safe_mode # "UNSAFE" /\ Exceeds(req_size, OutputSizeLimit))
                    => (/\ ~ Exceeds(built, OutputSizeLimit)
                        /\ ScaledToLimit(req_size, built, OutputSizeLimit))
    /\ response.kind # "None" =>
          /\ response.extra_headers.requested = input.req_size
          /\ response.extra_headers.safeguarded = <<response.width, response.height>>
          /\ <<response.width, response.height>> = out_size

\* a request over the limit in safe mode is answered with a smaller image
C8_Witness ==
    /\ response.kind = "image"
    /\ input.safe_mode = "SAFE_RESIZE"
    /\ Exceeds(input.req_size, OutputSizeLimit)
    /\ response.extra_headers.requested # response.extra_headers.safeguarded
    /\ response.width = OutputSizeLimit

\* C9 as the spec states it: with style mode MASK the response is the
\* MaskResponse, and with mode DRAWING or no style it is the WindowResponse.
C9_MaskModeGivesMask ==
    window.kind # "None" =>
        /\ input.annotation_style = "MASK" => window.kind = "MaskResponse"
        /\ input.annotation_style \in {"DRAWING", "None"} => window.kind = "WindowResponse"

\* C9, amended: with style mode MASK and at least one annotation the response
\* is the MaskResponse; with mode MASK and no annotation, with mode DRAWING or
\* with no style it is the WindowResponse.
C9_MaskNeedsAnnotations ==
    window.kind # "None" =>
        /\ (input.annotation_style = "MASK" /\ input.annotations.n > 0)
              => window.kind = "MaskResponse"
        /\ (input.annotation_style = "MASK" /\ input.annotations.n = 0)
              => window.kind = "WindowResponse"
        /\ input.annotation_style \in {"DRAWING", "None"} => window.kind = "WindowResponse"

\* a mask is answered to a request with annotations that the handler parsed
C9_Witness ==
    /\ pc = "done" /\ window.kind = "MaskResponse"
    /\ ~ input.annotations.parsed /\ annotations.parsed

\* C10: the safeguard applied to a size it has produced gives that size back.
C10_SafeguardIdempotent ==
    sg.applied >= 2 => sg.size = sg.previous

\* the first application scaled the size down, the second left it alone
C10_Witness ==
    /\ sg.applied = 2
    /\ sg.safe_mode = "SAFE_RESIZE"
    /\ Exceeds(sg.requested, sg.max_size)
    /\ sg.size # sg.requested

=============================================================================
